---- MODULE Spec2Model ----
(***************************************************************************)
(* Model of the conversation backend: the Thread Manager                   *)
(* (services/thread.py, services/user.py), the chat turn                   *)
(* (services/agent.py stream_chat), the Message Window Filter              *)
(* (services/agent.py filter_messages) and the history projection          *)
(* (ThreadService.get_thread_history).                                     *)
(*                                                                         *)
(* Identifiers are integers: user ids are 1..NumUsers, thread ids minted   *)
(* by uuid.uuid4() are 1..MaxThreads (a counter, never reused: no call     *)
(* starts and no INSERT happens once they are used up), ForeignId          *)
(* is a client-chosen conversation key that was never minted, and BlankId  *)
(* stands for an empty or whitespace-only string.                          *)
(***************************************************************************)
EXTENDS Integers, Sequences, FiniteSets, TLC

\* ---------------------------------------------------------------- bounds
NumUsers == 2
MaxThreads == 3
MaxMessages == 2
MaxLen == 24
HeadFree == 2
CutFree == 3
MaxHistory == 3
MaxClock == 1
MaxStored == 4

\* ------------------------------------------------------------- constants
\* filter_messages: the window size, and the window left beside a pinned
\* SystemMessage
MaxWindow == 20
MaxRecentPinned == 19
\* _get_message_preview: max_length
PreviewLength == 50

Procs == {1, 2}
Users == 1 .. NumUsers
ThreadIds == 1 .. MaxThreads
ForeignId == 0
BlankId == -1
Keys == ThreadIds \cup {ForeignId}
None == "None"
DefaultTitle == "default"

VARIABLES
    users,          \* ids of the rows of table users
    threads,        \* table threads: thread id -> row
    nextId,         \* the next value uuid.uuid4() returns
    checkpoints,    \* checkpoint store: conversation key -> message sequence
    pc,             \* per request: where the handler stands
    arg,            \* per request: the arguments of the running call
    local,          \* per request: the thread id the call works on
    result,         \* per request: the outcome of the last call
    events,         \* per request: the SSE frames the chat turn emitted
    seeded,         \* history: default threads seeded per user
    pre,            \* history: the tables as the running call found them
    messages,       \* filter_messages: state["messages"]
    llm_input_messages, \* filter_messages: the returned llm_input_messages
    hook,           \* filter_messages: whether the hook has run on messages
    history,        \* per request: the list get_thread_history returned
    item,           \* per request: the ThreadItem the call returned
    listing,        \* per request: the list get_user_threads returned
    open,           \* per request: the connections its call holds open
    checkpointer,   \* the connection of AgentService._checkpointer
    service,        \* AgentService: _instance, the attributes of its
                    \* instances, what was created, the calls under way
    now,            \* CURRENT_TIMESTAMP of the database
    recorded        \* whether a request's arguments stay on record after it

vars == <<users, threads, nextId, checkpoints, pc, arg, local, result, events,
          seeded, pre, messages, llm_input_messages, hook, history, item,
          listing, open, checkpointer, service, now, recorded>>

env == <<now, recorded, checkpointer, service>>
tables == <<users, threads, nextId, checkpoints, seeded, env>>
filter == <<messages, llm_input_messages, hook>>
outs == <<events, history, pre, item, listing>>

\* ------------------------------------------------------------- messages
\* A LangChain message: its type tag, its content, whether it carries
\* tool_calls, and its id.
Msg(type, content, tool_calls, id) ==
    [type |-> type, content |-> content, tool_calls |-> tool_calls, id |-> id]

HumanMessage(content, id) == Msg("human", content, FALSE, id)
AIMessage(content, id) == Msg("ai", content, FALSE, id)
ToolCallMessage(content, id) == Msg("ai", content, TRUE, id)
ToolMessage(content, id) == Msg("tool", content, FALSE, id)

\* ------------------------------------------------- ThreadService helpers
\* _get_message_count: 0 without a checkpoint, else len(messages)
GetMessageCount(thread_id) == Len(checkpoints[thread_id])

\* _get_message_preview: None without a checkpoint or without messages, else
\* the content of the last message, cut to max_length characters and "..."
GetMessagePreview(thread_id, max_length) ==
    IF checkpoints[thread_id] = << >>
       THEN None
       ELSE LET content ==
                    checkpoints[thread_id][Len(checkpoints[thread_id])].content
            IN  IF Len(content) > max_length
                   THEN SubSeq(content, 1, max_length) \o "..."
                   ELSE content

\* faulty variant: is_empty left at the default of _row_to_thread_item, as
\* get_thread leaves it
GetUserThreadsDefault(user_id) ==
    {[id |-> t, is_empty |-> TRUE] :
        t \in {x \in DOMAIN threads : threads[x].user_id = user_id}}

\* get_user_threads: the rows of the user, each with its live is_empty
GetUserThreads(user_id) ==
    {[id |-> t, is_empty |-> (GetMessageCount(t) = 0)] :
        t \in {x \in DOMAIN threads : threads[x].user_id = user_id}}

\* faulty variant: all() where the code says any()
HasEmptyThreadAll(user_id) ==
    /\ GetUserThreads(user_id) # {}
    /\ \A th \in GetUserThreads(user_id) : th.is_empty

\* has_empty_thread: any(thread.is_empty for thread in threads)
HasEmptyThread(user_id) ==
    \E th \in GetUserThreads(user_id) : th.is_empty

\* a row of table threads as INSERT INTO threads (id, user_id, title) makes
\* it: preview NULL, created_at and updated_at DEFAULT CURRENT_TIMESTAMP
Row(user_id, title) ==
    [user_id |-> user_id, title |-> title, preview |-> None,
     created_at |-> now, updated_at |-> now]

\* no ThreadItem (None)
NoItem ==
    [id |-> BlankId, user_id |-> BlankId, title |-> None, preview |-> None,
     is_empty |-> TRUE, created_at |-> 0, updated_at |-> 0]

\* _row_to_thread_item: preview=preview or row.get("preview")
RowToThreadItem(id, row, preview, is_empty) ==
    [id |-> id, user_id |-> row.user_id, title |-> row.title,
     preview |-> IF preview \notin {None, ""} THEN preview ELSE row.preview,
     is_empty |-> is_empty,
     created_at |-> row.created_at, updated_at |-> row.updated_at]

NoArg == [op |-> "none", user_id |-> BlankId, thread_id |-> BlankId,
          title |-> None, preview |-> None, message |-> ""]

\* class AgentService before its first call: _instance = None, and for each
\* instance there can be _agent = None and _checkpointer = None (0 is None);
\* instances, agents, conns count what was created; self, got are the
\* instance a call under way works on and the value the last call returned
NoService ==
    [instance |-> 0,
     agent |-> [i \in Procs |-> 0],
     saver |-> [i \in Procs |-> 0],
     instances |-> 0, agents |-> 0, conns |-> 0,
     op |-> [p \in Procs |-> "none"],
     self |-> [p \in Procs |-> 0],
     got |-> [p \in Procs |-> 0]]

NoPre == [user_id |-> BlankId, user |-> FALSE, tids |-> {}, empty |-> {}]

\* the tables as a call for user_id finds them
Snapshot(user_id) ==
    [user_id |-> user_id,
     user |-> user_id \in users,
     tids |-> {t \in DOMAIN threads : threads[t].user_id = user_id},
     empty |-> {t \in DOMAIN threads :
                  threads[t].user_id = user_id /\ GetMessageCount(t) = 0}]

\* no row, no checkpoint, no request
Quiet ==
    /\ users = {}
    /\ threads = << >>
    /\ nextId = 1
    /\ checkpoints = [k \in Keys |-> << >>]
    /\ pc = [p \in Procs |-> "idle"]
    /\ arg = [p \in Procs |-> NoArg]
    /\ local = [p \in Procs |-> BlankId]
    /\ result = [p \in Procs |-> "none"]
    /\ events = [p \in Procs |-> << >>]
    /\ seeded = [u \in Users |-> 0]
    /\ pre = [p \in Procs |-> NoPre]
    /\ history = [p \in Procs |-> << >>]
    /\ item = [p \in Procs |-> NoItem]
    /\ listing = [p \in Procs |-> << >>]
    /\ open = [p \in Procs |-> 0]
    /\ checkpointer = "none"
    /\ service = NoService
    /\ now = 0

Init ==
    /\ Quiet
    /\ recorded = FALSE
    /\ messages = << >>
    /\ llm_input_messages = << >>
    /\ hook = "idle"

\* the connections a call holds open at a place of its handler: the one of
\* get_or_create_user between its INSERTs, the one of create_thread between
\* its INSERT and its SELECT, the one of update_thread around get_thread
Held(at, a) ==
    IF \/ at \in {"insert_default", "select_thread"}
       \/ at = "get_thread" /\ a.op = "update"
       THEN 1 ELSE 0

\* a request enters a handler
Enter(p, a, at) ==
    /\ pc[p] = "idle"
    /\ open' = [open EXCEPT ![p] = Held(at, a)]
    /\ pc' = [pc EXCEPT ![p] = at]
    /\ arg' = [arg EXCEPT ![p] = a]
    /\ local' = [local EXCEPT ![p] = BlankId]
    /\ result' = [result EXCEPT ![p] = "none"]
    /\ events' = [events EXCEPT ![p] = << >>]
    /\ history' = [history EXCEPT ![p] = << >>]
    /\ item' = [item EXCEPT ![p] = NoItem]
    /\ listing' = [listing EXCEPT ![p] = << >>]
    /\ pre' = [pre EXCEPT ![p] =
                 IF a.op = "create" \/ (recorded /\ a.op = "chat")
                    THEN Snapshot(a.user_id) ELSE NoPre]

\* a handler that is one statement runs and returns r
Whole(p, a, r) ==
    /\ pc[p] = "idle"
    /\ arg' = [arg EXCEPT ![p] = a]
    /\ result' = [result EXCEPT ![p] = r]
    /\ events' = [events EXCEPT ![p] = << >>]
    /\ pre' = [pre EXCEPT ![p] = NoPre]
    /\ item' = [item EXCEPT ![p] = NoItem]
    /\ UNCHANGED <<pc, local, open>>

\* a handler moves on
Goto(p, at) ==
    /\ pc' = [pc EXCEPT ![p] = at]
    /\ open' = [open EXCEPT ![p] = Held(at, arg[p])]
    /\ UNCHANGED <<arg, local, result>>

\* a handler returns or raises: finally: conn.close(); its frame is gone,
\* its outcome stays (and the request that was made, where requests are kept
\* on record)
Leave(p, r) ==
    /\ pc' = [pc EXCEPT ![p] = "idle"]
    /\ open' = [open EXCEPT ![p] = 0]
    /\ result' = [result EXCEPT ![p] = r]
    /\ arg' = [arg EXCEPT ![p] = IF recorded THEN @ ELSE NoArg]
    /\ local' = [local EXCEPT ![p] = BlankId]

\* ---------------------------------------------------------- createThread
\* routes/thread.py create_thread -> ThreadService.create_thread
CreateThreadCall(p, user_id, title) ==
    /\ nextId <= MaxThreads
    /\ Enter(p, [NoArg EXCEPT !.op = "create", !.user_id = user_id,
                              !.title = title], "get_user")
    /\ UNCHANGED <<tables, filter>>

\* get_or_create_user: user = self.get_user(user_id); if user: return user
GetUser(p) ==
    /\ pc[p] = "get_user"
    /\ IF arg[p].user_id \in users
          THEN Goto(p, "has_empty")
          ELSE Goto(p, "insert_user")
    /\ UNCHANGED <<tables, outs, filter>>

\* faulty variant: a users table without the primary key
InsertUserNoKey(p) ==
    /\ pc[p] = "insert_user"
    /\ Goto(p, "insert_default")
    /\ users' = users \cup {arg[p].user_id}
    /\ UNCHANGED <<threads, nextId, checkpoints, seeded, env, outs, filter>>

\* get_or_create_user: INSERT INTO users; the primary key rejects a second
\* row of the same id, and the exception leaves create_thread
InsertUser(p) ==
    /\ pc[p] = "insert_user"
    /\ IF arg[p].user_id \in users
          THEN /\ Leave(p, "error")
               /\ UNCHANGED users
          ELSE /\ Goto(p, "insert_default")
               /\ users' = users \cup {arg[p].user_id}
    /\ UNCHANGED <<threads, nextId, checkpoints, seeded, env, outs, filter>>

\* faulty variant: a new user is given no default thread
InsertNoDefaultThread(p) ==
    /\ pc[p] = "insert_default"
    /\ Goto(p, "has_empty")
    /\ UNCHANGED <<tables, outs, filter>>

\* get_or_create_user: INSERT INTO threads the default thread
\* (the connection is in autocommit mode: each INSERT is visible at once)
InsertDefaultThread(p) ==
    /\ pc[p] = "insert_default"
    /\ nextId <= MaxThreads
    /\ threads' = (nextId :> Row(arg[p].user_id, DefaultTitle)) @@ threads
    /\ nextId' = nextId + 1
    /\ seeded' = [seeded EXCEPT ![arg[p].user_id] = @ + 1]
    /\ Goto(p, "has_empty")
    /\ UNCHANGED <<users, checkpoints, env, outs, filter>>

\* faulty variant: create_thread without its check
CheckEmptyThreadSkipped(p) ==
    /\ pc[p] = "has_empty"
    /\ Goto(p, "insert_thread")
    /\ UNCHANGED <<tables, outs, filter>>

\* create_thread: if self.has_empty_thread(user_id): raise ValueError
CheckEmptyThread(p) ==
    /\ pc[p] = "has_empty"
    /\ IF HasEmptyThread(arg[p].user_id)
          THEN Leave(p, "conflict")
          ELSE Goto(p, "insert_thread")
    /\ UNCHANGED <<tables, outs, filter>>

\* faulty variant: the check repeated in the statement that inserts (check and
\* insert in one transaction)
InsertThreadChecked(p) ==
    /\ pc[p] = "insert_thread"
    /\ nextId <= MaxThreads
    /\ IF HasEmptyThread(arg[p].user_id)
          THEN /\ Leave(p, "conflict")
               /\ UNCHANGED <<threads, nextId>>
          ELSE /\ threads' =
                     (nextId :> Row(arg[p].user_id, arg[p].title)) @@ threads
               /\ nextId' = nextId + 1
               /\ pc' = [pc EXCEPT ![p] = "select_thread"]
               /\ open' = [open EXCEPT ![p] = Held("select_thread", arg[p])]
               /\ local' = [local EXCEPT ![p] = nextId]
               /\ UNCHANGED <<arg, result>>
    /\ UNCHANGED <<users, checkpoints, seeded, env, outs, filter>>

\* create_thread: thread_id = uuid4(); INSERT INTO threads
InsertThread(p) ==
    /\ pc[p] = "insert_thread"
    /\ nextId <= MaxThreads
    /\ threads' = (nextId :> Row(arg[p].user_id, arg[p].title)) @@ threads
    /\ nextId' = nextId + 1
    /\ pc' = [pc EXCEPT ![p] = "select_thread"]
    /\ open' = [open EXCEPT ![p] = Held("select_thread", arg[p])]
    /\ local' = [local EXCEPT ![p] = nextId]
    /\ UNCHANGED <<users, checkpoints, seeded, env, arg, result, outs, filter>>

\* create_thread: SELECT * FROM threads WHERE id = thread_id; a row that
\* is gone makes _row_to_thread_item raise
SelectThread(p) ==
    /\ pc[p] = "select_thread"
    /\ IF local[p] \in DOMAIN threads
          THEN /\ Leave(p, "ok")
               /\ item' = [item EXCEPT ![p] =
                     RowToThreadItem(local[p], threads[local[p]], None, TRUE)]
          ELSE /\ Leave(p, "error")
               /\ UNCHANGED item
    /\ UNCHANGED <<tables, events, history, pre, listing, filter>>

\* ---------------------------------------------------------- deleteThread
\* ThreadService.delete_thread: DELETE FROM threads WHERE id = thread_id;
\* return cur.rowcount > 0 (the call, then the statement)
DeleteThreadCall(p, thread_id) ==
    /\ Enter(p, [NoArg EXCEPT !.op = "delete", !.thread_id = thread_id],
             "delete_thread")
    /\ UNCHANGED <<tables, filter>>

\* faulty variant: return cur.rowcount >= 0
DeleteThreadAlwaysTrue(p) ==
    /\ pc[p] = "delete_thread"
    /\ threads' = [t \in DOMAIN threads \ {arg[p].thread_id} |-> threads[t]]
    /\ Leave(p, "ok")
    /\ UNCHANGED <<users, nextId, checkpoints, seeded, env, outs, filter>>

\* ThreadService.delete_thread: the DELETE and its rowcount
DeleteThread(p) ==
    /\ pc[p] = "delete_thread"
    /\ threads' = [t \in DOMAIN threads \ {arg[p].thread_id} |-> threads[t]]
    /\ Leave(p, IF arg[p].thread_id \in DOMAIN threads
                   THEN "ok" ELSE "not_found")
    /\ UNCHANGED <<users, nextId, checkpoints, seeded, env, outs, filter>>

\* ---------------------------------------------------------- updateThread
\* faulty variant: both columns are always set, also to NULL
UpdateRowAll(row, title, preview) ==
    LET set == [row EXCEPT !.title = title, !.preview = preview]
    IN  IF set = row THEN row ELSE [set EXCEPT !.updated_at = now]

\* UPDATE threads SET title = .., preview = .. on a row: the columns
\* supplied are set; a row whose values change gets updated_at =
\* CURRENT_TIMESTAMP (ON UPDATE CURRENT_TIMESTAMP), a row left as it was
\* keeps it
UpdateRow(row, title, preview) ==
    LET set == [row EXCEPT !.title = IF title # None THEN title ELSE @,
                           !.preview = IF preview # None THEN preview ELSE @]
    IN  IF set = row THEN row ELSE [set EXCEPT !.updated_at = now]

\* ThreadService.update_thread: UPDATE threads SET the supplied columns
\* (none supplied: no UPDATE), then get_thread
UpdateThreadCall(p, thread_id, title, preview) ==
    /\ Enter(p, [NoArg EXCEPT !.op = "update", !.thread_id = thread_id,
                              !.title = title, !.preview = preview],
             "get_thread")
    /\ threads' =
          IF thread_id \in DOMAIN threads
             THEN [threads EXCEPT ![thread_id] = UpdateRow(@, title, preview)]
             ELSE threads
    /\ UNCHANGED <<users, nextId, checkpoints, seeded, env, filter>>

\* routes: a client fetches one thread (ThreadService.get_thread)
GetThreadCall(p, thread_id) ==
    /\ Enter(p, [NoArg EXCEPT !.op = "get", !.thread_id = thread_id],
             "get_thread")
    /\ UNCHANGED <<tables, filter>>

\* ThreadService.get_thread: SELECT * FROM threads WHERE id = thread_id;
\* the row as a ThreadItem (is_empty at its default), or None
GetThread(p) ==
    /\ pc[p] = "get_thread"
    /\ IF arg[p].thread_id \in DOMAIN threads
          THEN /\ Leave(p, "ok")
               /\ item' = [item EXCEPT ![p] =
                     RowToThreadItem(arg[p].thread_id,
                                     threads[arg[p].thread_id], None, TRUE)]
          ELSE /\ Leave(p, "not_found")
               /\ UNCHANGED item
    /\ UNCHANGED <<tables, events, history, pre, listing, filter>>

\* the clock of the database moves on
Tick ==
    /\ now < MaxClock
    /\ now' = now + 1
    /\ UNCHANGED <<users, threads, nextId, checkpoints, seeded, recorded,
                   checkpointer, service, pc, arg, local, result, open, outs,
                   filter>>

\* ------------------------------------------------------------ listThreads
\* SELECT * FROM threads WHERE user_id = .. ORDER BY updated_at DESC: the
\* ids of the user's rows in an order the database may return them in
RowsByUpdatedAt(user_id) ==
    LET ids == {t \in DOMAIN threads : threads[t].user_id = user_id}
    IN  {rows \in [1 .. Cardinality(ids) -> ids] :
            /\ \A i, j \in DOMAIN rows : i # j => rows[i] # rows[j]
            /\ \A i, j \in DOMAIN rows :
                  i < j => threads[rows[i]].updated_at
                              >= threads[rows[j]].updated_at}

\* ThreadService.get_user_threads: each row as a ThreadItem with the live
\* preview and the live is_empty
ListThreads(p, user_id) ==
    /\ Whole(p, [NoArg EXCEPT !.op = "list", !.user_id = user_id], "ok")
    /\ \E rows \in RowsByUpdatedAt(user_id) :
          listing' = [listing EXCEPT ![p] =
              [i \in DOMAIN rows |->
                  RowToThreadItem(rows[i], threads[rows[i]],
                                  GetMessagePreview(rows[i], PreviewLength),
                                  GetMessageCount(rows[i]) = 0)]]
    /\ history' = [history EXCEPT ![p] = << >>]
    /\ UNCHANGED <<tables, filter>>

\* ------------------------------------------------- Message Window Filter
\* faulty variant: only messages[0] is looked at for the SystemMessage
ExtractLeadingSystem(msgs, i, system_message, remaining_messages) ==
    IF msgs # << >> /\ msgs[1].type = "system"
       THEN [system_message |-> <<msgs[1]>>, remaining_messages |-> Tail(msgs)]
       ELSE [system_message |-> << >>, remaining_messages |-> msgs]

\* filter_messages, step 1: the loop that takes the first SystemMessage
\* out of messages; system_message is << >> (None) or a one-element list
RECURSIVE ExtractSystemMessage(_, _, _, _)
ExtractSystemMessage(msgs, i, system_message, remaining_messages) ==
    IF i > Len(msgs)
       THEN [system_message |-> system_message,
             remaining_messages |-> remaining_messages]
       ELSE IF msgs[i].type = "system" /\ system_message = << >>
               THEN ExtractSystemMessage(msgs, i + 1, <<msgs[i]>>,
                                         remaining_messages)
               ELSE ExtractSystemMessage(msgs, i + 1, system_message,
                                         Append(remaining_messages, msgs[i]))

\* faulty variant: no place kept for the pinned SystemMessage
RecentMessagesWide(remaining_messages, max_recent) ==
    IF Len(remaining_messages) > MaxWindow
       THEN SubSeq(remaining_messages,
                   Len(remaining_messages) - MaxWindow + 1,
                   Len(remaining_messages))
       ELSE remaining_messages

\* filter_messages, step 2: remaining_messages[-max_recent:]
RecentMessages(remaining_messages, max_recent) ==
    IF Len(remaining_messages) > max_recent
       THEN SubSeq(remaining_messages,
                   Len(remaining_messages) - max_recent + 1,
                   Len(remaining_messages))
       ELSE remaining_messages

\* faulty variant: step 3 left out
KeepLeadingToolMessages(recent_messages) == recent_messages

\* faulty variant: if where the code says while
DropOneToolMessage(recent_messages) ==
    IF recent_messages # << >> /\ recent_messages[1].type = "tool"
       THEN Tail(recent_messages)
       ELSE recent_messages

\* filter_messages, step 3: while recent_messages and
\* isinstance(recent_messages[0], ToolMessage): recent_messages[1:]
RECURSIVE DropLeadingToolMessages(_)
DropLeadingToolMessages(recent_messages) ==
    IF recent_messages # << >> /\ recent_messages[1].type = "tool"
       THEN DropLeadingToolMessages(Tail(recent_messages))
       ELSE recent_messages

\* faulty variant: len(messages) < 20 where the code says <=
FilterMessagesBelow(msgs) ==
    IF Len(msgs) < MaxWindow
       THEN msgs
       ELSE LET ex == ExtractSystemMessage(msgs, 1, << >>, << >>)
                max_recent == IF ex.system_message # << >>
                                 THEN MaxRecentPinned ELSE MaxWindow
                recent_messages ==
                    DropLeadingToolMessages(
                        RecentMessages(ex.remaining_messages, max_recent))
            IN  ex.system_message \o recent_messages

\* filter_messages: the value of llm_input_messages
FilterMessages(msgs) ==
    IF Len(msgs) <= MaxWindow
       THEN msgs
       ELSE LET ex == ExtractSystemMessage(msgs, 1, << >>, << >>)
                max_recent == IF ex.system_message # << >>
                                 THEN MaxRecentPinned ELSE MaxWindow
                recent_messages ==
                    DropLeadingToolMessages(
                        RecentMessages(ex.remaining_messages, max_recent))
            IN  ex.system_message \o recent_messages

\* the agent runs the pre_model_hook on the messages of the state
PreModelHook ==
    /\ hook = "ready"
    /\ llm_input_messages' = FilterMessages(messages)
    /\ hook' = "done"
    /\ UNCHANGED <<tables, pc, arg, local, result, open, outs, messages>>

\* ------------------------------------------------------ getThreadHistory
\* faulty variant: an empty MESSAGE_TYPE_MAP
ConvertMessageRoleUnmapped(msg_type) == msg_type

\* MESSAGE_TYPE_MAP.get(msg_type, msg_type)
ConvertMessageRole(msg_type) ==
    CASE msg_type = "human" -> "user"
      [] msg_type = "ai" -> "assistant"
      [] OTHER -> msg_type

\* str.strip() on the contents the model uses
Strip(content) == IF content \in {" ", "\n"} THEN "" ELSE content

MessageItem(role, content) == [role |-> role, content |-> content]

\* faulty variant: the loop without its tool_calls test
RECURSIVE HistoryLoopToolCalls(_, _, _)
HistoryLoopToolCalls(raw_messages, i, out) ==
    IF i > Len(raw_messages) THEN out
    ELSE LET msg == raw_messages[i] IN
         IF msg.type \notin {"human", "ai"}
            THEN HistoryLoopToolCalls(raw_messages, i + 1, out)
         ELSE IF msg.type = "ai"
                 /\ (msg.content = "" \/ Strip(msg.content) = "")
            THEN HistoryLoopToolCalls(raw_messages, i + 1, out)
         ELSE HistoryLoopToolCalls(raw_messages, i + 1,
                 Append(out, MessageItem(ConvertMessageRole(msg.type),
                                         msg.content)))

\* get_thread_history: the loop over raw_messages
RECURSIVE HistoryLoop(_, _, _)
HistoryLoop(raw_messages, i, out) ==
    IF i > Len(raw_messages) THEN out
    ELSE LET msg == raw_messages[i] IN
         IF msg.type \notin {"human", "ai"}
            THEN HistoryLoop(raw_messages, i + 1, out)
         ELSE IF msg.type = "ai"
                 /\ (msg.tool_calls \/ msg.content = ""
                       \/ Strip(msg.content) = "")
            THEN HistoryLoop(raw_messages, i + 1, out)
         ELSE HistoryLoop(raw_messages, i + 1,
                 Append(out, MessageItem(ConvertMessageRole(msg.type),
                                         msg.content)))

\* ThreadService.get_thread_history: the checkpoint of thread_id, projected
\* (user_id is not read)
GetThreadHistory(p, user_id, thread_id) ==
    /\ Whole(p, [NoArg EXCEPT !.op = "history", !.user_id = user_id,
                              !.thread_id = thread_id], "ok")
    /\ history' = [history EXCEPT ![p] =
                      HistoryLoop(checkpoints[thread_id], 1, << >>)]
    /\ listing' = [listing EXCEPT ![p] = << >>]
    /\ UNCHANGED <<tables, filter>>

\* -------------------------------------------------------------- chat turn
Event(type, content) == [type |-> type, content |-> content]

Emit(p, e) == events' = [events EXCEPT ![p] = Append(@, e)]

ChatPcs == {"validate", "agent_input", "agent_model", "agent_tools",
            "stream_end"}

\* chat turns past their validation
Running == Cardinality({q \in Procs : pc[q] \in ChatPcs})

RECURSIVE Stored(_)
Stored(S) ==
    IF S = {} THEN 0
    ELSE LET k == CHOOSE x \in S : TRUE IN
         Len(checkpoints[k]) + Stored(S \ {k})

\* the model stores at most MaxMessages messages in all: a turn starts only
\* if it and every running turn fit
TurnsLeft == Stored(Keys) + 2 * (Running + 1) <= MaxMessages

\* ----------------------------------------------------------- AgentService
\* AgentService().get_agent() run from its first line to its return with
\* no other call in between: what it creates
Created(s) ==
    LET s1 == IF s.instance = 0
                 THEN [s EXCEPT !.instance = s.instances + 1,
                                !.instances = @ + 1]
                 ELSE s
        i == s1.instance
    IN  IF s1.agent[i] = 0
           THEN [s1 EXCEPT !.saver[i] = s1.conns + 1, !.conns = @ + 1,
                           !.agent[i] = s1.agents + 1, !.agents = @ + 1]
           ELSE s1

\* what a step of a call to AgentService leaves alone
aside == <<users, threads, nextId, checkpoints, seeded, now, recorded, arg,
           local, result, open, outs, filter>>

\* get_agent() / get_agent_service().get_checkpointer(): AgentService()
ServiceCall(p, op) ==
    /\ pc[p] = "idle"
    /\ pc' = [pc EXCEPT ![p] = "new"]
    /\ service' = [service EXCEPT !.op[p] = op, !.self[p] = 0, !.got[p] = 0]
    /\ UNCHANGED <<aside, checkpointer>>

\* __new__: if cls._instance is None:
New(p) ==
    /\ pc[p] = "new"
    /\ pc' = [pc EXCEPT ![p] = IF service.instance = 0
                                  THEN "new_create" ELSE "new_return"]
    /\ UNCHANGED <<aside, checkpointer, service>>

\* __new__: cls._instance = super().__new__(cls)
NewCreate(p) ==
    /\ pc[p] = "new_create"
    /\ pc' = [pc EXCEPT ![p] = "new_return"]
    /\ service' = [service EXCEPT !.instance = service.instances + 1,
                                  !.instances = @ + 1]
    /\ UNCHANGED <<aside, checkpointer>>

\* __new__: return cls._instance, and the method is called on it
NewReturn(p) ==
    /\ pc[p] = "new_return"
    /\ pc' = [pc EXCEPT ![p] = IF service.op[p] = "get_agent"
                                  THEN "get_agent" ELSE "get_checkpointer"]
    /\ service' = [service EXCEPT !.self[p] = service.instance]
    /\ UNCHANGED <<aside, checkpointer>>

\* get_agent: if self._agent is None:
GetAgent(p) ==
    /\ pc[p] = "get_agent"
    /\ pc' = [pc EXCEPT ![p] = IF service.agent[service.self[p]] = 0
                                  THEN "create_checkpointer"
                                  ELSE "return_agent"]
    /\ UNCHANGED <<aside, checkpointer, service>>

\* get_agent: model = self._create_model();
\* self._checkpointer = self._create_checkpointer()
CreateCheckpointer(p) ==
    /\ pc[p] = "create_checkpointer"
    /\ pc' = [pc EXCEPT ![p] = "create_agent"]
    /\ service' = [service EXCEPT !.saver[service.self[p]] = service.conns + 1,
                                  !.conns = @ + 1]
    /\ checkpointer' = "open"
    /\ UNCHANGED aside

\* get_agent: self._agent = create_agent(...)
CreateAgent(p) ==
    /\ pc[p] = "create_agent"
    /\ pc' = [pc EXCEPT ![p] = "return_agent"]
    /\ service' = [service EXCEPT !.agent[service.self[p]] = service.agents + 1,
                                  !.agents = @ + 1]
    /\ UNCHANGED <<aside, checkpointer>>

\* get_agent: return self._agent
ReturnAgent(p) ==
    /\ pc[p] = "return_agent"
    /\ pc' = [pc EXCEPT ![p] = "idle"]
    /\ service' = [service EXCEPT !.got[p] = service.agent[service.self[p]]]
    /\ UNCHANGED <<aside, checkpointer>>

\* get_checkpointer: if self._checkpointer is None:
GetCheckpointer(p) ==
    /\ pc[p] = "get_checkpointer"
    /\ pc' = [pc EXCEPT ![p] = IF service.saver[service.self[p]] = 0
                                  THEN "set_checkpointer"
                                  ELSE "return_checkpointer"]
    /\ UNCHANGED <<aside, checkpointer, service>>

\* get_checkpointer: self._checkpointer = self._create_checkpointer()
SetCheckpointer(p) ==
    /\ pc[p] = "set_checkpointer"
    /\ pc' = [pc EXCEPT ![p] = "return_checkpointer"]
    /\ service' = [service EXCEPT !.saver[service.self[p]] = service.conns + 1,
                                  !.conns = @ + 1]
    /\ checkpointer' = "open"
    /\ UNCHANGED aside

\* get_checkpointer: return self._checkpointer
ReturnCheckpointer(p) ==
    /\ pc[p] = "return_checkpointer"
    /\ pc' = [pc EXCEPT ![p] = "idle"]
    /\ service' = [service EXCEPT !.got[p] = service.saver[service.self[p]]]
    /\ UNCHANGED <<aside, checkpointer>>

\* the calls of the worker threads of the server, in any interleaving
ServiceStep(p) ==
    \/ ServiceCall(p, "get_agent")
    \/ ServiceCall(p, "get_checkpointer")
    \/ New(p)
    \/ NewCreate(p)
    \/ NewReturn(p)
    \/ GetAgent(p)
    \/ CreateCheckpointer(p)
    \/ CreateAgent(p)
    \/ ReturnAgent(p)
    \/ GetCheckpointer(p)
    \/ SetCheckpointer(p)
    \/ ReturnCheckpointer(p)

ServiceInit ==
    /\ Quiet
    /\ recorded = FALSE
    /\ messages = << >>
    /\ llm_input_messages = << >>
    /\ hook = "idle"

ServiceNext == \E p \in Procs : ServiceStep(p)

ServiceSpec == ServiceInit /\ [][ServiceNext]_vars

\* routes/chat.py chat_stream -> stream_chat(agent, req)
\* (Depends(get_agent): the first request creates the agent and, with
\* _create_checkpointer, the connection the agent keeps)
ChatCall(p, user_id, thread_id, message) ==
    /\ Enter(p, [NoArg EXCEPT !.op = "chat", !.user_id = user_id,
                              !.thread_id = thread_id, !.message = message],
             "validate")
    /\ checkpointer' = "open"
    /\ service' = Created(service)
    /\ UNCHANGED <<users, threads, nextId, checkpoints, seeded, now, recorded,
                   filter>>

\* faulty variant: only the message is looked at
ValidateMessageOnly(p) ==
    /\ pc[p] = "validate"
    /\ IF Strip(arg[p].message) = ""
          THEN /\ Emit(p, Event("error", "invalid"))
               /\ Leave(p, "error")
          ELSE /\ Goto(p, "agent_input")
               /\ UNCHANGED events
    /\ UNCHANGED <<tables, history, pre, item, listing, filter>>

\* stream_chat: any(not v or not str(v).strip() for v in (user_id,
\* thread_id, message)) yields one error frame and returns
Validate(p) ==
    /\ pc[p] = "validate"
    /\ IF \/ arg[p].user_id = BlankId
          \/ arg[p].thread_id = BlankId
          \/ Strip(arg[p].message) = ""
          THEN /\ Emit(p, Event("error", "invalid"))
               /\ Leave(p, "error")
          ELSE /\ Goto(p, "agent_input")
               /\ UNCHANGED events
    /\ UNCHANGED <<tables, history, pre, item, listing, filter>>

\* agent.stream: the user message joins the messages of the checkpoint of
\* get_full_thread_id() (= thread_id)
AgentInput(p) ==
    /\ pc[p] = "agent_input"
    /\ LET key == arg[p].thread_id IN
          checkpoints' = [checkpoints EXCEPT ![key] =
              Append(@, HumanMessage(arg[p].message, Len(@) + 1))]
    /\ Goto(p, "agent_model")
    /\ UNCHANGED <<users, threads, nextId, seeded, env, outs, filter>>

\* agent.stream: the pre_model_hook filters the messages, the model answers,
\* the answer joins the checkpoint, and stream_chat yields a token frame
\* unless the content is empty or a bare newline
AgentModel(p, content) ==
    /\ pc[p] = "agent_model"
    /\ LET key == arg[p].thread_id IN
          /\ messages' = checkpoints[key]
          /\ llm_input_messages' = FilterMessages(checkpoints[key])
          /\ hook' = "done"
          /\ checkpoints' = [checkpoints EXCEPT ![key] =
                Append(@, AIMessage(content, Len(@) + 1))]
    /\ IF content # "" /\ content # "\n"
          THEN Emit(p, Event("token", content))
          ELSE UNCHANGED events
    /\ Goto(p, "stream_end")
    /\ UNCHANGED <<users, threads, nextId, seeded, env, history, pre,
                   item, listing>>

\* agent.stream: the model answers with tool calls; the message joins the
\* checkpoint, stream_chat yields its content (if any) as a token frame, and
\* the tools node is next
AgentToolCall(p, content) ==
    /\ pc[p] = "agent_model"
    /\ LET key == arg[p].thread_id IN
          /\ messages' = checkpoints[key]
          /\ llm_input_messages' = FilterMessages(checkpoints[key])
          /\ hook' = "done"
          /\ checkpoints' = [checkpoints EXCEPT ![key] =
                Append(@, ToolCallMessage(content, Len(@) + 1))]
    /\ IF content # "" /\ content # "\n"
          THEN Emit(p, Event("token", content))
          ELSE UNCHANGED events
    /\ Goto(p, "agent_tools")
    /\ UNCHANGED <<users, threads, nextId, seeded, env, history, pre,
                   item, listing>>

\* agent.stream: the tools node runs the tool; its result joins the
\* checkpoint (a chunk stream_chat yields nothing for), the model is next
ToolsNode(p) ==
    /\ pc[p] = "agent_tools"
    /\ LET key == arg[p].thread_id IN
          checkpoints' = [checkpoints EXCEPT ![key] =
              Append(@, ToolMessage("r", Len(@) + 1))]
    /\ Goto(p, "agent_model")
    /\ UNCHANGED <<users, threads, nextId, seeded, env, outs, filter>>

\* faulty variant: the end frame yielded in a finally clause, after the
\* error frame too
AgentFailThenEnd(p) ==
    /\ pc[p] \in {"agent_input", "agent_model", "agent_tools"}
    /\ events' = [events EXCEPT ![p] =
          Append(Append(@, Event("error", "exception")), Event("end", ""))]
    /\ Leave(p, "error")
    /\ UNCHANGED <<tables, history, pre, item, listing, filter>>

\* stream_chat: except Exception: one error frame ends the stream
AgentFail(p) ==
    /\ pc[p] \in {"agent_input", "agent_model", "agent_tools"}
    /\ Emit(p, Event("error", "exception"))
    /\ Leave(p, "error")
    /\ UNCHANGED <<tables, history, pre, item, listing, filter>>

\* stream_chat: the end frame
StreamEnd(p) ==
    /\ pc[p] = "stream_end"
    /\ Emit(p, Event("end", ""))
    /\ Leave(p, "ok")
    /\ UNCHANGED <<tables, history, pre, item, listing, filter>>

\* ------------------------------------------------------------ the system
\* the ids the clients have seen, and the messages they send
Minted == 1 .. (nextId - 1)
UserMessages == {"hello", ""}

Step(p) ==
    \/ GetUser(p)
    \/ InsertUser(p)
    \/ InsertDefaultThread(p)
    \/ CheckEmptyThread(p)
    \/ InsertThread(p)
    \/ SelectThread(p)
    \/ DeleteThread(p)
    \/ GetThread(p)
    \/ Validate(p)
    \/ AgentInput(p)
    \/ AgentModel(p, "hi")
    \/ AgentFail(p)
    \/ StreamEnd(p)

\* the calls of clients that act on the threads they are shown
Call(p) ==
    \/ \E user_id \in Users : CreateThreadCall(p, user_id, None)
    \/ \E thread_id \in DOMAIN threads : DeleteThreadCall(p, thread_id)
    \/ \E thread_id \in DOMAIN threads :
          UpdateThreadCall(p, thread_id, "X", None)
    \/ \E thread_id \in DOMAIN threads, message \in UserMessages :
          /\ TurnsLeft
          /\ ChatCall(p, threads[thread_id].user_id, thread_id, message)

Next == \E p \in Procs : Call(p) \/ Step(p)

Spec == Init /\ [][Next]_vars

\* the operations one after the other: a single client
SerialNext == Call(1) \/ Step(1)

SerialSpec == Init /\ [][SerialNext]_vars

\* --------------------------------- one client and every Thread Manager call
\* the client also names threads that are gone and keys that never were
\* threads, writes the preview column, and time passes between its calls
\* a message of 60 characters
LongMessage == "123456789 123456789 123456789 123456789 123456789 123456789 "
Updates == {<<"X", None>>, <<None, "P">>, <<None, None>>}
ManagerUsers == {1}

ManagerCall(p) ==
    \/ \E user_id \in ManagerUsers : CreateThreadCall(p, user_id, None)
    \/ \E thread_id \in Minted \cup {ForeignId} :
          DeleteThreadCall(p, thread_id)
    \/ \E thread_id \in Minted, update \in Updates :
          UpdateThreadCall(p, thread_id, update[1], update[2])
    \/ \E thread_id \in Minted : GetThreadCall(p, thread_id)
    \/ \E thread_id \in DOMAIN threads, message \in {"hello", LongMessage} :
          /\ TurnsLeft
          /\ ChatCall(p, threads[thread_id].user_id, thread_id, message)
    \/ \E user_id \in ManagerUsers : ListThreads(p, user_id)

ManagerInit ==
    /\ Quiet
    /\ recorded = TRUE
    /\ messages = << >>
    /\ llm_input_messages = << >>
    /\ hook = "idle"

ManagerNext == ManagerCall(1) \/ Step(1) \/ (pc[1] = "idle" /\ Tick)

ManagerSpec == ManagerInit /\ [][ManagerNext]_vars

\* ------------------------------------------- one client and the chat turn
\* whatever a client may send: ids that are blank, a user without a row, a
\* conversation key that is no thread; and whatever the model may answer
ChatUsers == Users \cup {BlankId}
ChatThreads == {1, ForeignId, BlankId}
ChatMessages == {"hello", "", " "}
ModelAnswers == {"hi", "", " ", "\n"}
ToolCallContents == {"", "hm"}

\* the model stores at most MaxStored messages in all
RoomFor(n) == Stored(Keys) + n <= MaxStored

ChatStep(p) ==
    \/ Validate(p)
    \/ AgentInput(p)
    \/ \E content \in ModelAnswers : AgentModel(p, content)
    \/ \E content \in ToolCallContents :
          /\ RoomFor(3)
          /\ AgentToolCall(p, content)
    \/ ToolsNode(p)
    \/ AgentFail(p)
    \/ StreamEnd(p)
    \/ DeleteThread(p)

ChatClient(p) ==
    \/ \E user_id \in ChatUsers, thread_id \in ChatThreads,
          message \in ChatMessages :
          /\ RoomFor(2)
          /\ ChatCall(p, user_id, thread_id, message)
    \/ \E user_id \in Users, thread_id \in ChatThreads \ {BlankId} :
          GetThreadHistory(p, user_id, thread_id)
    \/ \E thread_id \in Minted : DeleteThreadCall(p, thread_id)

\* user 1 and its default thread, as its first createThread left them
ChatInit ==
    /\ users = {1}
    /\ threads = (1 :> [user_id |-> 1, title |-> DefaultTitle,
                        preview |-> None, created_at |-> 0, updated_at |-> 0])
    /\ nextId = 2
    /\ checkpoints = [k \in Keys |-> << >>]
    /\ pc = [p \in Procs |-> "idle"]
    /\ arg = [p \in Procs |-> NoArg]
    /\ local = [p \in Procs |-> BlankId]
    /\ result = [p \in Procs |-> "none"]
    /\ events = [p \in Procs |-> << >>]
    /\ seeded = [u \in Users |-> IF u = 1 THEN 1 ELSE 0]
    /\ pre = [p \in Procs |-> NoPre]
    /\ history = [p \in Procs |-> << >>]
    /\ item = [p \in Procs |-> NoItem]
    /\ listing = [p \in Procs |-> << >>]
    /\ open = [p \in Procs |-> 0]
    /\ checkpointer = "none"
    /\ service = NoService
    /\ now = 0
    /\ recorded = TRUE
    /\ messages = << >>
    /\ llm_input_messages = << >>
    /\ hook = "idle"

ChatNext == ChatClient(1) \/ ChatStep(1)

ChatSpec == ChatInit /\ [][ChatNext]_vars

\* -------------------------------------------- the filter on its own inputs
\* the types filter_messages tells apart, at the head of the sequence and
\* around the place where the window is cut; the rest is filler
FilterKinds == {"system", "tool", "human"}
FillerKinds == {"ai", "tool"}

\* the type of the i-th of n messages
FilterInputKind(n, head, cut, fill, i) ==
    IF i <= HeadFree THEN head[i]
    ELSE IF n - i \in (MaxWindow - CutFree + 1) .. MaxWindow
            THEN cut[MaxWindow - (n - i) + 1]
            ELSE fill

\* n messages with ids 1 .. n; an AIMessage carries tool_calls when a
\* ToolMessage follows it
FilterInput(n, head, cut, fill) ==
    [i \in 1 .. n |->
        Msg(FilterInputKind(n, head, cut, fill, i),
            "m",
            /\ FilterInputKind(n, head, cut, fill, i) = "ai"
            /\ i < n
            /\ FilterInputKind(n, head, cut, fill, i + 1) = "tool",
            i)]

FilterInputs ==
    {FilterInput(n, head, cut, fill) :
        n \in 0 .. MaxLen,
        head \in [1 .. HeadFree -> FilterKinds],
        cut \in [1 .. CutFree -> FilterKinds],
        fill \in FillerKinds}

FilterInit ==
    /\ Quiet
    /\ recorded = FALSE
    /\ messages \in FilterInputs
    /\ llm_input_messages = << >>
    /\ hook = "ready"

FilterNext == PreModelHook

FilterSpec == FilterInit /\ [][FilterNext]_vars

\* ------------------------------------ the filter on tool-call exchanges
\* histories of an agent that calls tools: a SystemMessage, a HumanMessage
\* or an AIMessage at the head, and AIMessages with their tool results
\* around the place where the window is cut
ExchangeHeadKinds == {"system", "human", "ai"}
ExchangeCutKinds == {"ai", "tool", "human"}

ExchangeInputs ==
    {FilterInput(n, head, cut, fill) :
        n \in 0 .. MaxLen,
        head \in [1 .. HeadFree -> ExchangeHeadKinds],
        cut \in [1 .. CutFree -> ExchangeCutKinds],
        fill \in FillerKinds}

ExchangeInit ==
    /\ Quiet
    /\ recorded = FALSE
    /\ messages \in ExchangeInputs
    /\ llm_input_messages = << >>
    /\ hook = "ready"

ExchangeSpec == ExchangeInit /\ [][FilterNext]_vars

\* ------------------------------------ the history of one stored checkpoint
HistoryKinds ==
    {Msg("human", c, FALSE, 0) : c \in {"", "hi"}}
        \cup {Msg("ai", c, t, 0) : c \in {"", " ", "hi"}, t \in BOOLEAN}
        \cup {Msg("tool", "r", FALSE, 0), Msg("system", "s", FALSE, 0)}

HistoryInputs ==
    UNION {{[i \in 1 .. n |-> [k[i] EXCEPT !.id = i]] :
               k \in [1 .. n -> HistoryKinds]} : n \in 0 .. MaxHistory}

\* user 1 owns thread 1, whose checkpoint holds a stored conversation
HistoryInit ==
    /\ users = {1}
    /\ threads = (1 :> [user_id |-> 1, title |-> DefaultTitle,
                        preview |-> None, created_at |-> 0, updated_at |-> 0])
    /\ nextId = 2
    /\ \E raw \in HistoryInputs :
          checkpoints = [k \in Keys |-> IF k = 1 THEN raw ELSE << >>]
    /\ pc = [p \in Procs |-> "idle"]
    /\ arg = [p \in Procs |-> NoArg]
    /\ local = [p \in Procs |-> BlankId]
    /\ result = [p \in Procs |-> "none"]
    /\ events = [p \in Procs |-> << >>]
    /\ seeded = [u \in Users |-> IF u = 1 THEN 1 ELSE 0]
    /\ pre = [p \in Procs |-> NoPre]
    /\ history = [p \in Procs |-> << >>]
    /\ item = [p \in Procs |-> NoItem]
    /\ listing = [p \in Procs |-> << >>]
    /\ open = [p \in Procs |-> 0]
    /\ checkpointer = "none"
    /\ service = NoService
    /\ now = 0
    /\ recorded = FALSE
    /\ messages = << >>
    /\ llm_input_messages = << >>
    /\ hook = "idle"

HistoryNext == \E user_id \in Users : GetThreadHistory(1, user_id, 1)

HistorySpec == HistoryInit /\ [][HistoryNext]_vars

\* ================================================================ claims
\* the thread rows of a user in a threads table
RowsOf(table, user_id) == {t \in DOMAIN table : table[t].user_id = user_id}

\* the threads of a user whose checkpoint holds no message
EmptyThreads(user_id) ==
    {t \in RowsOf(threads, user_id) : Len(checkpoints[t]) = 0}

AllIdle == \A p \in Procs : pc[p] = "idle"

\* create_thread of request p returns or raises in this step
CreateReturns(p) ==
    /\ arg[p].op = "create"
    /\ pc[p] # "idle"
    /\ pc'[p] = "idle"

\* C1: when the operations run one after the other, after every operation
\* each user owns at most one thread whose checkpoint holds zero messages.
C1_AtMostOneEmptyThread ==
    AllIdle => \A u \in Users : Cardinality(EmptyThreads(u)) <= 1

\* a user with a thread in use and, after a createThread that succeeded,
\* one empty thread
C1_Witness ==
    /\ AllIdle
    /\ \E p \in Procs :
          /\ result[p] = "ok"
          /\ pre[p].user_id \in Users
          /\ Cardinality(EmptyThreads(pre[p].user_id)) = 1
          /\ Cardinality(RowsOf(threads, pre[p].user_id)) >= 2

\* C2: the check and the insert of createThread are two statements: a call
\* that passed has_empty_thread inserts its row whatever has happened to the
\* user's threads since, so two concurrent calls for one existing user with
\* no empty thread both succeed and leave two empty threads.
C2_InsertAfterCheckIsUnconditional ==
    [][\A p \in Procs :
          (pc[p] = "insert_thread" /\ pc'[p] # pc[p]) =>
              /\ pc'[p] = "select_thread"
              /\ DOMAIN threads' = DOMAIN threads \cup {nextId}
              /\ threads'[nextId].user_id = arg[p].user_id]_vars

\* both calls found the user with no empty thread, both returned a thread,
\* and the user owns two empty threads
C2_Witness ==
    \E u \in Users :
        /\ Cardinality(EmptyThreads(u)) = 2
        /\ \A p \in Procs :
              /\ pc[p] = "idle"
              /\ result[p] = "ok"
              /\ pre[p].user_id = u
              /\ pre[p].user
              /\ pre[p].empty = {}

\* C3: createThread for a user who already owns a thread with zero
\* persisted messages fails with the conflict error and inserts no thread
\* row (so the second of two calls in a row for a fresh user fails).
C3_ConflictWhenEmptyThreadExists ==
    [][\A p \in Procs :
          (CreateReturns(p) /\ pre[p].empty # {}) =>
              /\ result'[p] = "conflict"
              /\ RowsOf(threads', pre[p].user_id) = pre[p].tids]_vars

\* the second call in a row for a fresh user: the only thread it found is
\* the empty default thread, and it failed with the conflict
C3_Witness ==
    \E p \in Procs :
        /\ pc[p] = "idle"
        /\ result[p] = "conflict"
        /\ pre[p].user
        /\ Cardinality(pre[p].tids) = 1
        /\ pre[p].empty = pre[p].tids
        /\ RowsOf(threads, pre[p].user_id) = pre[p].tids

\* C4: createThread for a user whose only thread holds at least one
\* persisted message returns a new thread and inserts exactly one row.
C4_CreateSucceedsAfterMessage ==
    [][\A p \in Procs :
          (/\ CreateReturns(p)
           /\ pre[p].user
           /\ Cardinality(pre[p].tids) = 1
           /\ pre[p].empty = {}) =>
              /\ result'[p] = "ok"
              /\ pre[p].tids \subseteq RowsOf(threads', pre[p].user_id)
              /\ Cardinality(RowsOf(threads', pre[p].user_id)) = 2]_vars

C4_Witness ==
    \E p \in Procs :
        /\ pc[p] = "idle"
        /\ result[p] = "ok"
        /\ pre[p].user
        /\ Cardinality(pre[p].tids) = 1
        /\ pre[p].empty = {}
        /\ Cardinality(RowsOf(threads, pre[p].user_id)) = 2
        /\ Cardinality(EmptyThreads(pre[p].user_id)) = 1

\* C5: a default thread is seeded only by the call that found no user row
\* and inserted it, and a user is seeded at most one default thread, under
\* any interleaving of calls.
C5_SeedOnlyOnUserCreation ==
    [][\A u \in Users :
          seeded'[u] # seeded[u] =>
              /\ seeded[u] = 0
              /\ seeded'[u] = 1
              /\ \E p \in Procs :
                    /\ pc[p] = "insert_default"
                    /\ arg[p].user_id = u
                    /\ ~pre[p].user]_vars

\* a createThread for an existing user inserted its thread and seeded none
C5_Witness ==
    \E p \in Procs :
        /\ result[p] = "ok"
        /\ pre[p].user
        /\ seeded[pre[p].user_id] = 1
        /\ Cardinality(RowsOf(threads, pre[p].user_id)) = 2

UpdatesTitle(p, thread_id) ==
    /\ pc[p] = "idle"
    /\ pc'[p] = "get_thread"
    /\ arg'[p].op = "update"
    /\ arg'[p].thread_id = thread_id
    /\ arg'[p].title = "X"
    /\ arg'[p].preview = None
    /\ thread_id \in DOMAIN threads

\* getThread(thread_id) of request p returns in this step
GetReturns(p, thread_id) ==
    /\ pc[p] = "get_thread"
    /\ arg[p].op = "get"
    /\ arg[p].thread_id = thread_id
    /\ pc'[p] = "idle"

\* the ThreadItem shows the columns of the row
ShowsRow(it, thread_id, row) ==
    /\ it.id = thread_id
    /\ it.user_id = row.user_id
    /\ it.title = row.title
    /\ it.preview = row.preview
    /\ it.created_at = row.created_at
    /\ it.updated_at = row.updated_at

\* C11 as stated: updateThread(title = "X") leaves a row with title "X" and
\* every other column (user_id, preview, created_at, updated_at) as it was,
\* and a getThread that follows returns that row.
C11_Original_OnlyTitleChanges ==
    [][\A p \in Procs : \A t \in ThreadIds :
          /\ UpdatesTitle(p, t) =>
                threads' = [threads EXCEPT ![t].title = "X"]
          /\ (GetReturns(p, t) /\ t \in DOMAIN threads) =>
                /\ result'[p] = "ok"
                /\ ShowsRow(item'[p], t, threads[t])]_vars

\* C11 amended: updateThread(title = "X") leaves a row with title "X", with
\* user_id, preview and created_at as they were, and with updated_at set to
\* the time of the update when the title changed (as it was when the title
\* was "X" already); a getThread that follows returns that row.
C11_TitleRoundTrip ==
    [][\A p \in Procs : \A t \in ThreadIds :
          /\ UpdatesTitle(p, t) =>
                threads' = [threads EXCEPT
                    ![t].title = "X",
                    ![t].updated_at = IF threads[t].title = "X" THEN @ ELSE now]
          /\ (GetReturns(p, t) /\ t \in DOMAIN threads) =>
                /\ result'[p] = "ok"
                /\ ShowsRow(item'[p], t, threads[t])]_vars

\* a getThread returned a thread with title "X" and a preview that an
\* earlier update had written, updated after the second it was created in
C11_Witness ==
    \E p \in Procs :
        /\ pc[p] = "idle"
        /\ arg[p].op = "get"
        /\ result[p] = "ok"
        /\ item[p].title = "X"
        /\ item[p].preview = "P"
        /\ item[p].updated_at > item[p].created_at

\* C12: deleteThread on an id with no thread row returns false (not found,
\* no exception) and leaves the thread rows as they are; on an id with a row
\* it removes that row, no other, and returns true.
C12_DeleteReturnsWhetherRowExisted ==
    [][\A p \in Procs :
          (pc[p] = "delete_thread" /\ pc'[p] = "idle") =>
              IF arg[p].thread_id \in DOMAIN threads
                 THEN /\ result'[p] = "ok"
                      /\ DOMAIN threads' = DOMAIN threads \ {arg[p].thread_id}
                      /\ \A t \in DOMAIN threads' : threads'[t] = threads[t]
                 ELSE /\ result'[p] = "not_found"
                      /\ threads' = threads]_vars

\* a thread was deleted, and deleting it once more returned not found while
\* the user's other thread stayed
C12_Witness ==
    \E p \in Procs :
        /\ pc[p] = "idle"
        /\ arg[p].op = "delete"
        /\ arg[p].thread_id \in Minted \ DOMAIN threads
        /\ result[p] = "not_found"
        /\ threads # << >>

\* what the Checkpoint Store gives as the preview of a thread: nothing
\* without a message, else the content of the last message, cut to 50
\* characters plus "..." when it is longer
LivePreview(thread_id) ==
    LET stored == checkpoints[thread_id] IN
    IF stored = << >> THEN None
    ELSE IF Len(stored[Len(stored)].content) > 50
            THEN SubSeq(stored[Len(stored)].content, 1, 50) \o "..."
            ELSE stored[Len(stored)].content

\* C16: the preview of every entry of listThreads is the live preview of the
\* Checkpoint Store, never the stored preview column, whatever updateThread
\* wrote to it.
C16_PreviewIsLive ==
    \A p \in Procs :
        (arg[p].op = "list" /\ result[p] = "ok") =>
            \A i \in DOMAIN listing[p] :
                /\ listing[p][i].preview = LivePreview(listing[p][i].id)
                /\ listing[p][i].preview # "P"

\* C21: the ThreadItem that createThread, getThread or updateThread returns,
\* and every entry that listThreads returns, has is_empty true exactly when
\* the checkpoint of its thread holds no message at the time of the call.
C21_IsEmptyIsLive ==
    \A p \in Procs :
        (pc[p] = "idle" /\ result[p] = "ok") =>
            /\ (arg[p].op \in {"create", "get", "update"} /\ item[p] # NoItem)
                  => (item[p].is_empty <=> GetMessageCount(item[p].id) = 0)
            /\ arg[p].op = "list" =>
                  \A i \in DOMAIN listing[p] :
                      listing[p][i].is_empty <=>
                          GetMessageCount(listing[p][i].id) = 0

\* --------------------------------------------- claims about the filter
\* the last n elements of a sequence (all of it when it is shorter)
LastN(msgs, n) ==
    LET k == IF Len(msgs) < n THEN Len(msgs) ELSE n
    IN  [j \in 1 .. k |-> msgs[Len(msgs) - k + j]]

\* a sequence from its first element that is not a tool result
WithoutLeadingTools(msgs) ==
    LET kept == {i \in 1 .. Len(msgs) : msgs[i].type # "tool"}
    IN  IF kept = {} THEN << >>
        ELSE LET first == CHOOSE i \in kept : \A j \in kept : i <= j
             IN  [j \in 1 .. (Len(msgs) - first + 1) |-> msgs[first + j - 1]]

\* a sequence without its i-th element
Without(msgs, i) ==
    [j \in 1 .. (Len(msgs) - 1) |-> IF j < i THEN msgs[j] ELSE msgs[j + 1]]

SystemIndexes(msgs) == {i \in 1 .. Len(msgs) : msgs[i].type = "system"}

FirstSystemIndex(msgs) ==
    CHOOSE i \in SystemIndexes(msgs) : \A j \in SystemIndexes(msgs) : i <= j

Filtered == hook = "done"

\* C6 as stated: the first element of the filter's output is never a
\* tool-result message, whatever the input.
C6_Original_NeverStartsWithTool ==
    (Filtered /\ llm_input_messages # << >>) =>
        llm_input_messages[1].type # "tool"

\* C6 amended: for an input of more than 20 messages the output is empty or
\* starts with a message that is not a tool result; an input of at most 20
\* messages comes back as it is, so its output starts with a tool result
\* exactly when the input does.
C6_NeverStartsWithToolWhenCut ==
    Filtered =>
        /\ Len(messages) > 20 =>
              \/ llm_input_messages = << >>
              \/ llm_input_messages[1].type # "tool"
        /\ (Len(messages) <= 20 /\ llm_input_messages # << >>) =>
              /\ messages # << >>
              /\ (llm_input_messages[1].type = "tool"
                    <=> messages[1].type = "tool")

\* more than 20 messages, no SystemMessage, and the window of the last 20
\* starts with two tool results, which the filter dropped
C6_Witness ==
    /\ Filtered
    /\ Len(messages) > 20
    /\ SystemIndexes(messages) = {}
    /\ messages[Len(messages) - 19].type = "tool"
    /\ messages[Len(messages) - 18].type = "tool"
    /\ llm_input_messages # << >>
    /\ Len(llm_input_messages) <= 18

\* C7: for more than 20 messages of which the first is a system message,
\* the output begins with that message and has at most 20 elements.
C7_LeadingSystemPinned ==
    (Filtered /\ Len(messages) > 20 /\ messages[1].type = "system") =>
        /\ llm_input_messages # << >>
        /\ llm_input_messages[1] = messages[1]
        /\ Len(llm_input_messages) <= 20

C7_Witness ==
    /\ Filtered
    /\ Len(messages) > 20
    /\ messages[1].type = "system"
    /\ llm_input_messages[1] = messages[1]
    /\ Len(llm_input_messages) = 20

\* C8 as stated: a system message is pinned only when it is the first
\* message: otherwise the output is the last 20 messages without their
\* leading tool results.
C8_Original_PinnedOnlyWhenFirst ==
    (Filtered /\ Len(messages) > 20) =>
        llm_input_messages =
            IF messages[1].type = "system"
               THEN <<messages[1]>>
                        \o WithoutLeadingTools(LastN(Tail(messages), 19))
               ELSE WithoutLeadingTools(LastN(messages, 20))

\* C8 amended: for more than 20 messages the first system message of the
\* sequence, wherever it stands, is pinned: with no system message the
\* output is the last 20 messages without their leading tool results; else
\* it is the first system message followed by the last 19 of the other
\* messages without their leading tool results.
C8_FirstSystemMessagePinned ==
    (Filtered /\ Len(messages) > 20) =>
        llm_input_messages =
            IF SystemIndexes(messages) = {}
               THEN WithoutLeadingTools(LastN(messages, 20))
               ELSE <<messages[FirstSystemIndex(messages)]>>
                        \o WithoutLeadingTools(
                              LastN(Without(messages,
                                            FirstSystemIndex(messages)), 19))

\* a system message that is not the first message was moved to the front
C8_Witness ==
    /\ Filtered
    /\ Len(messages) > 20
    /\ messages[1].type # "system"
    /\ SystemIndexes(messages) # {}
    /\ llm_input_messages[1] = messages[FirstSystemIndex(messages)]

\* C9: a sequence of at most 20 messages comes back unchanged.
C9_ShortInputUnchanged ==
    (Filtered /\ Len(messages) <= 20) => llm_input_messages = messages

\* exactly 20 messages, starting with a tool result
C9_Witness ==
    /\ Filtered
    /\ Len(messages) = 20
    /\ messages[1].type = "tool"
    /\ llm_input_messages = messages

\* the place of the message that requested the tool result at place i: the
\* nearest place before i that holds no tool result (0 when there is none)
Originator(msgs, i) ==
    LET before == {j \in 1 .. (i - 1) : msgs[j].type # "tool"}
    IN  IF before = {} THEN 0
        ELSE CHOOSE j \in before : \A k \in before : k <= j

\* every tool result is preceded, with only tool results in between, by an
\* AIMessage that carries tool_calls
WellFormed(msgs) ==
    \A i \in 1 .. Len(msgs) :
        msgs[i].type = "tool" =>
            /\ Originator(msgs, i) # 0
            /\ msgs[Originator(msgs, i)].type = "ai"
            /\ msgs[Originator(msgs, i)].tool_calls

\* C22: for a well-formed history, every tool result in the filter's output
\* has the AIMessage that requested it in the output too, before it: the
\* filter never cuts through a tool-call exchange.
C22_ExchangeNeverCut ==
    (Filtered /\ WellFormed(messages)) =>
        \A k \in 1 .. Len(llm_input_messages) :
            llm_input_messages[k].type = "tool" =>
                \E j \in 1 .. (k - 1) :
                    llm_input_messages[j] =
                        messages[Originator(messages,
                                            llm_input_messages[k].id)]

\* a well-formed history of more than 20 messages without a SystemMessage,
\* whose last 20 start with a tool result: the filter dropped that result,
\* and the output holds a later exchange
C22_Witness ==
    /\ Filtered
    /\ WellFormed(messages)
    /\ Len(messages) > 20
    /\ SystemIndexes(messages) = {}
    /\ messages[Len(messages) - 19].type = "tool"
    /\ llm_input_messages # << >>
    /\ llm_input_messages[1].type = "ai"
    /\ llm_input_messages[1].id > Len(messages) - 19
    /\ \E k \in 1 .. Len(llm_input_messages) :
          llm_input_messages[k].type = "tool"

\* -------------------------------------------- claims about the history
Blank(content) == content \in {"", " ", "\n"}

Shown(msg) ==
    \/ msg.type = "human"
    \/ msg.type = "ai" /\ ~msg.tool_calls /\ ~Blank(msg.content)

Projection(raw) ==
    LET kept == SelectSeq(raw, Shown)
    IN  [i \in 1 .. Len(kept) |->
            [role |-> IF kept[i].type = "human" THEN "user" ELSE "assistant",
             content |-> kept[i].content]]

\* C10: getThreadHistory returns, in order, the human messages as user and
\* the ai messages with no tool calls and non-blank content as assistant,
\* and nothing else.
C10_HistoryIsProjection ==
    \A p \in Procs :
        (arg[p].op = "history" /\ result[p] = "ok") =>
            /\ history[p] = Projection(checkpoints[arg[p].thread_id])
            /\ \A i \in 1 .. Len(history[p]) :
                  history[p][i].role \in {"user", "assistant"}

\* a checkpoint with a tool-call request and its tool result, of which the
\* history shows neither
C10_Witness ==
    \E p \in Procs :
        /\ arg[p].op = "history"
        /\ result[p] = "ok"
        /\ LET raw == checkpoints[arg[p].thread_id] IN
              /\ Len(raw) = 3
              /\ raw[1].type = "human"
              /\ raw[2].type = "ai" /\ raw[2].tool_calls /\ raw[2].content = "hi"
              /\ raw[3].type = "tool"
              /\ Len(history[p]) = 1

\* ------------------------------------------ claims about the chat turn
\* a chat request of which the user id, the thread id or the message is
\* empty or whitespace only
BlankRequest(a) ==
    \/ a.user_id = BlankId
    \/ a.thread_id = BlankId
    \/ Blank(a.message)

\* C13: a chat turn whose user id, thread id or message is blank yields one
\* error event and ends there: it never reaches the agent, and its only
\* step leaves the checkpoints and the agent's state as they are.
C13_BlankRequestIsRejected ==
    [][\A p \in Procs :
          (arg[p].op = "chat" /\ BlankRequest(arg[p])) =>
              /\ pc[p] \in {"validate", "idle"}
              /\ (pc[p] = "validate" /\ pc'[p] # "validate") =>
                    /\ pc'[p] = "idle"
                    /\ result'[p] = "error"
                    /\ events'[p] = <<Event("error", "invalid")>>
                    /\ checkpoints' = checkpoints
                    /\ UNCHANGED filter]_vars

\* a turn with a message and a thread but a blank user id ended with its one
\* error event, and the thread's checkpoint holds nothing
C13_Witness ==
    \E p \in Procs :
        /\ pc[p] = "idle"
        /\ arg[p].op = "chat"
        /\ arg[p].user_id = BlankId
        /\ arg[p].thread_id = 1
        /\ arg[p].message = "hello"
        /\ events[p] = <<Event("error", "invalid")>>
        /\ checkpoints[1] = << >>

\* the frames of a turn that runs are tokens; the frames of a turn that is
\* over are tokens and then one end or error frame
FramesInOrder(frames, at, a) ==
    /\ at \in ChatPcs =>
          \A i \in 1 .. Len(frames) : frames[i].type = "token"
    /\ (at = "idle" /\ a.op = "chat") =>
          /\ frames # << >>
          /\ frames[Len(frames)].type \in {"end", "error"}
          /\ \A i \in 1 .. (Len(frames) - 1) : frames[i].type = "token"

\* C14: in one turn, whatever happens, the frames are tokens in the order
\* the model generated them and then exactly one frame that is end or error:
\* each step of the turn yields no frame or one; a token frame carries the
\* content of the AI message that step generated; the turn returns with the
\* step that yields its end or error frame, and yields nothing after it.
C14_TokensThenOneTerminal ==
    [][\A p \in Procs :
          /\ FramesInOrder(events'[p], pc'[p], arg'[p])
          /\ pc[p] \in ChatPcs =>
                \/ events'[p] = events[p] /\ pc'[p] \in ChatPcs
                \/ /\ Len(events'[p]) = Len(events[p]) + 1
                   /\ SubSeq(events'[p], 1, Len(events[p])) = events[p]
                   /\ LET frame == events'[p][Len(events'[p])]
                          old == checkpoints[arg[p].thread_id]
                          new == checkpoints'[arg[p].thread_id]
                      IN  IF frame.type = "token"
                             THEN /\ pc'[p] \in ChatPcs
                                  /\ Len(new) = Len(old) + 1
                                  /\ new[Len(new)].type = "ai"
                                  /\ new[Len(new)].content = frame.content
                             ELSE /\ frame.type \in {"end", "error"}
                                  /\ pc'[p] = "idle"
                                  /\ result'[p] \in {"ok", "error"}
          /\ (pc[p] = "idle" /\ pc'[p] = "idle" /\ arg'[p].op = "chat") =>
                events'[p] = events[p]]_vars

\* a turn that failed in mid-stream, after a tool call whose message had
\* content: one token frame, then the error frame
C14_Witness ==
    \E p \in Procs :
        /\ pc[p] = "idle"
        /\ arg[p].op = "chat"
        /\ result[p] = "error"
        /\ events[p] = <<Event("token", "hm"), Event("error", "exception")>>

\* the contents of the token frames, joined
RECURSIVE TokenContents(_)
TokenContents(frames) ==
    IF frames = << >> THEN ""
    ELSE IF frames[1].type = "token"
            THEN frames[1].content \o TokenContents(Tail(frames))
            ELSE TokenContents(Tail(frames))

TokenFrames(frames) == SelectSeq(frames, LAMBDA f : f.type = "token")

\* request p, whose turn "hello" on a fresh conversation ended well with no
\* tool call, asks for the history of that conversation in this step
HistoryAfterHello(p) ==
    /\ pc[p] = "idle"
    /\ arg[p].op = "chat"
    /\ arg[p].message = "hello"
    /\ result[p] = "ok"
    /\ Len(checkpoints[arg[p].thread_id]) = 2
    /\ arg'[p].op = "history"
    /\ arg'[p].thread_id = arg[p].thread_id

\* the frames are tokens and then one end frame
TokensThenEnd(frames) ==
    /\ frames # << >>
    /\ frames[Len(frames)].type = "end"
    /\ \A i \in 1 .. (Len(frames) - 1) : frames[i].type = "token"

\* C15 as stated: the turn yields tokens and one end frame, and the history
\* then ends in the user message "hello" followed by one assistant message
\* whose content is the token contents joined.
C15_Original_HistoryEndsWithAnswer ==
    [][\A p \in Procs :
          HistoryAfterHello(p) =>
              /\ TokensThenEnd(events[p])
              /\ Len(history'[p]) >= 2
              /\ history'[p][Len(history'[p]) - 1] = MessageItem("user", "hello")
              /\ history'[p][Len(history'[p])] =
                    MessageItem("assistant", TokenContents(events[p]))]_vars

\* C15 amended: the turn yields at most one token and then one end frame;
\* when the model's answer is not blank, the history then ends in the user
\* message "hello" followed by one assistant message whose content is the
\* token contents joined; a blank answer is stored and not shown, and the
\* history ends in the user message "hello".
C15_HistoryEndsWithShownAnswer ==
    [][\A p \in Procs :
          HistoryAfterHello(p) =>
              /\ TokensThenEnd(events[p])
              /\ Len(TokenFrames(events[p])) <= 1
              /\ IF Blank(checkpoints[arg[p].thread_id][2].content)
                    THEN /\ history'[p] = <<MessageItem("user", "hello")>>
                    ELSE /\ history'[p] =
                              <<MessageItem("user", "hello"),
                                MessageItem("assistant",
                                            TokenContents(events[p]))>>
                         /\ Len(TokenFrames(events[p])) = 1]_vars

\* the history asked after "hello" was answered "hi"
C15_Witness ==
    \E p \in Procs :
        /\ arg[p].op = "history"
        /\ arg[p].thread_id = 1
        /\ checkpoints[1] = <<HumanMessage("hello", 1), AIMessage("hi", 2)>>
        /\ history[p] = <<MessageItem("user", "hello"),
                          MessageItem("assistant", "hi")>>

\* C17: connections are taken per operation and released on every way out:
\* a request whose call has returned or raised holds no connection open, and
\* no connection stays open over a streaming turn (so none is open when no
\* turn runs).
C17_NoConnectionLeftOpen ==
    /\ \A p \in Procs : pc[p] = "idle" => open[p] = 0
    /\ (\A p \in Procs : pc[p] \notin ChatPcs) => checkpointer = "none"

\* C18: after a chat turn that ended well and that a user without a User
\* row had submitted, the user has a User row and the conversation a Thread
\* row.
C18_ChatCreatesRows ==
    \A p \in Procs :
        (/\ pc[p] = "idle"
         /\ arg[p].op = "chat"
         /\ result[p] = "ok"
         /\ ~pre[p].user) =>
            /\ arg[p].user_id \in users
            /\ arg[p].thread_id \in DOMAIN threads

\* C19: the history of a thread that was deleted is empty.
C19_DeleteRemovesMessages ==
    \A p \in Procs :
        (/\ arg[p].op = "history"
         /\ result[p] = "ok"
         /\ arg[p].thread_id \in Minted \ DOMAIN threads) =>
            history[p] = << >>

\* C20: getThreadHistory(user_id, thread_id) returns the messages of a
\* thread only to the user the thread belongs to.
C20_HistoryOnlyForOwner ==
    \A p \in Procs :
        (/\ arg[p].op = "history"
         /\ result[p] = "ok"
         /\ arg[p].thread_id \in DOMAIN threads
         /\ threads[arg[p].thread_id].user_id # arg[p].user_id) =>
            history[p] = << >>


\* ------------------------------------------- claims about AgentService
\* a get_agent call of p has returned an agent
HasAgent(p) ==
    pc[p] = "idle" /\ service.op[p] = "get_agent" /\ service.got[p] # 0

\* C23: under any interleaving of get_agent and get_checkpointer calls, the
\* agent and the checkpointer connection are each created at most once in
\* the process, and every get_agent call returns the same agent.
C23_AgentServiceIsSingleton ==
    /\ service.agents <= 1
    /\ service.conns <= 1
    /\ \A p, q \in Procs :
          (HasAgent(p) /\ HasAgent(q)) => service.got[p] = service.got[q]

====
